---- MODULE Spec2Model ----
(***************************************************************************)
(* FinanceFlow: the in-memory store (server/storage.ts, MemoryStorage) and *)
(* the HTTP handlers in front of it (server/routes.ts), as a state machine.*)
(*                                                                         *)
(* Strings that the code compares character by character or parses        *)
(* (handles, amounts) are tuples of one-character strings.  Numbers the    *)
(* code computes with (Number(amount), sums) are IEEE-754 binary64 values, *)
(* kept as sign and magnitude, the magnitude a bit sequence.               *)
(***************************************************************************)
EXTENDS Integers, Sequences, FiniteSets, TLC

(***************************************************************************)
(* Generic helpers                                                         *)
(***************************************************************************)
Range(s) == { s[i] : i \in 1..Len(s) }

(***************************************************************************)
(* Decimal strings and binary64 arithmetic.                                *)
(* A double is [neg, mag]: mag is the magnitude in units of 2^-FracBits,   *)
(* as limbs of LimbBits bits, least significant first, with no leading     *)
(* (high) zero limb.                                                       *)
(***************************************************************************)
LimbBits == 15

Base == 2 ^ LimbBits

\* Every value handled is a multiple of 2^-FracBits: decimals of at least
\* 0.01 have their 53rd significant bit above 2^-FracBits.
FracLimbs == 4

FracBits == FracLimbs * LimbBits

\* significand width of binary64
MantBits == 53

DigitVal(c) ==
  CASE c = "0" -> 0 [] c = "1" -> 1 [] c = "2" -> 2 [] c = "3" -> 3
    [] c = "4" -> 4 [] c = "5" -> 5 [] c = "6" -> 6 [] c = "7" -> 7
    [] c = "8" -> 8 [] c = "9" -> 9

RECURSIVE DigitsToNat(_)
DigitsToNat(s) ==
  IF s = <<>> THEN 0
  ELSE 10 * DigitsToNat(SubSeq(s, 1, Len(s) - 1)) + DigitVal(s[Len(s)])

\* The decimal literal [-]digits[.digits] as [neg, n, k]: its value is
\* (-1)^neg * n / 10^k.
ParseDecimal(s) ==
  LET neg  == s # <<>> /\ s[1] = "-"
      body == IF neg THEN Tail(s) ELSE s
      dots == { i \in 1..Len(body) : body[i] = "." }
      dot  == IF dots = {} THEN Len(body) + 1 ELSE CHOOSE i \in dots : TRUE
      int  == SubSeq(body, 1, dot - 1)
      frac == SubSeq(body, dot + 1, Len(body))
  IN  [neg |-> neg, n |-> DigitsToNat(int \o frac), k |-> Len(frac)]

\* Drop the high zero limbs.
Normalize(m) ==
  LET nz == { i \in 1..Len(m) : m[i] # 0 }
  IN  IF nz = {} THEN <<>>
      ELSE SubSeq(m, 1, CHOOSE i \in nz : \A j \in nz : j <= i)

\* A natural number below Base^3 as limbs.
NatLimbs(n) == Normalize(<<n % Base, (n \div Base) % Base, n \div (Base * Base)>>)

\* The first k limbs of r/d (r < d) after the point, the last one first.
RECURSIVE FracDigits(_, _, _)
FracDigits(r, d, k) ==
  IF k = 0 THEN <<>>
  ELSE FracDigits((r * Base) % d, d, k - 1) \o <<(r * Base) \div d>>

\* What is left of r/d after those k limbs.
RECURSIVE FracRem(_, _, _)
FracRem(r, d, k) ==
  IF k = 0 THEN r ELSE FracRem((r * Base) % d, d, k - 1)

\* Number of significant bits of a magnitude.
BitLen(m) ==
  IF m = <<>> THEN 0
  ELSE LimbBits * (Len(m) - 1)
       + (CHOOSE k \in 1..LimbBits : 2 ^ (k - 1) <= m[Len(m)] /\ m[Len(m)] < 2 ^ k)

\* Bit i (from 0) of a magnitude.
Bit(m, i) == (m[(i \div LimbBits) + 1] \div (2 ^ (i % LimbBits))) % 2

RECURSIVE AddMag(_, _, _)
AddMag(a, b, carry) ==
  IF a = <<>> /\ b = <<>> THEN (IF carry = 1 THEN <<1>> ELSE <<>>)
  ELSE LET x == IF a = <<>> THEN 0 ELSE Head(a)
           y == IF b = <<>> THEN 0 ELSE Head(b)
           s == x + y + carry
       IN  <<s % Base>> \o AddMag(IF a = <<>> THEN <<>> ELSE Tail(a),
                                  IF b = <<>> THEN <<>> ELSE Tail(b),
                                  s \div Base)

\* a - b for a >= b
RECURSIVE SubMag(_, _, _)
SubMag(a, b, borrow) ==
  IF a = <<>> THEN <<>>
  ELSE LET y == IF b = <<>> THEN 0 ELSE Head(b)
           s == Head(a) - y - borrow
       IN  <<s % Base>> \o SubMag(Tail(a), IF b = <<>> THEN <<>> ELSE Tail(b),
                                  IF s < 0 THEN 1 ELSE 0)

\* a < b on magnitudes
LessMag(a, b) ==
  \/ Len(a) < Len(b)
  \/ /\ Len(a) = Len(b)
     /\ \E i \in 1..Len(a) :
          /\ a[i] < b[i]
          /\ \A j \in (i + 1)..Len(a) : a[j] = b[j]

\* Round to nearest, ties to even, at MantBits significant bits; sticky says
\* that the exact value lies above m.
Round53(m, sticky) ==
  IF BitLen(m) <= MantBits THEN m
  ELSE LET d     == BitLen(m) - MantBits
           w     == d \div LimbBits
           b     == d % LimbBits
           trunc == [j \in 1..Len(m) |->
                       IF j <= w THEN 0
                       ELSE IF j = w + 1 THEN (m[j] \div (2 ^ b)) * (2 ^ b)
                       ELSE m[j]]
           ulp   == [j \in 1..(w + 1) |-> IF j = w + 1 THEN 2 ^ b ELSE 0]
           half  == Bit(m, d - 1) = 1
           rest  == sticky \/ \E i \in 0..(d - 2) : Bit(m, i) = 1
           up    == half /\ (rest \/ Bit(m, d) = 1)
       IN  IF up THEN AddMag(trunc, ulp, 0) ELSE trunc

\* The double nearest to n/d.
ToDouble(neg, n, d) ==
  LET r   == n % d
      m   == Normalize(FracDigits(r, d, FracLimbs) \o NatLimbs(n \div d))
      mag == Round53(m, FracRem(r, d, FracLimbs) # 0)
  IN  [neg |-> neg /\ mag # <<>>, mag |-> mag]

DZero == [neg |-> FALSE, mag |-> <<>>]

\* Number(string) on a decimal literal
Number(s) ==
  LET p == ParseDecimal(s) IN ToDouble(p.neg, p.n, 10 ^ p.k)

\* x + y in binary64
DAdd(x, y) ==
  IF x.neg = y.neg
  THEN [neg |-> x.neg, mag |-> Round53(AddMag(x.mag, y.mag, 0), FALSE)]
  ELSE IF x.mag = y.mag THEN DZero
  ELSE IF LessMag(x.mag, y.mag)
       THEN [neg |-> y.neg,
             mag |-> Round53(Normalize(SubMag(y.mag, x.mag, 0)), FALSE)]
       ELSE [neg |-> x.neg,
             mag |-> Round53(Normalize(SubMag(x.mag, y.mag, 0)), FALSE)]

\* x - y in binary64
DSub(x, y) == DAdd(x, [neg |-> ~y.neg /\ y.mag # <<>>, mag |-> y.mag])

\* parseFloat(string) on a decimal literal
parseFloat(s) ==
  LET p == ParseDecimal(s) IN ToDouble(p.neg, p.n, 10 ^ p.k)

\* The limbs of m divided by a small natural c, rem carried in from above
RECURSIVE DivLimbs(_, _, _)
DivLimbs(m, c, rem) ==
  IF m = <<>> THEN <<>>
  ELSE LET cur == rem * Base + m[Len(m)]
       IN  DivLimbs(SubSeq(m, 1, Len(m) - 1), c, cur % c) \o <<cur \div c>>

\* What that division leaves
RECURSIVE DivRem(_, _, _)
DivRem(m, c, rem) ==
  IF m = <<>> THEN rem
  ELSE DivRem(SubSeq(m, 1, Len(m) - 1), c, (rem * Base + m[Len(m)]) % c)

\* x / c in binary64, for a count c >= 1
DDiv(x, c) ==
  LET mag == Round53(Normalize(DivLimbs(x.mag, c, 0)), DivRem(x.mag, c, 0) # 0)
  IN  [neg |-> x.neg /\ mag # <<>>, mag |-> mag]

\* Math.round(x), an integer: floor(x + 0.5), so that halves go up
MathRound(x) ==
  LET limb(i) == IF i <= Len(x.mag) THEN x.mag[i] ELSE 0
      whole   == limb(FracLimbs + 1) + Base * limb(FracLimbs + 2)
      top     == limb(FracLimbs)
      half    == Base \div 2
      below   == \E i \in 1..(FracLimbs - 1) : limb(i) # 0
  IN  IF x.neg
      THEN 0 - (whole + (IF top > half \/ (top = half /\ below)
                         THEN 1 ELSE 0))
      ELSE whole + (IF top >= half THEN 1 ELSE 0)

\* ts.reduce((sum, t) => sum + Number(t.amount), 0)
RECURSIVE SumAmounts(_, _)
SumAmounts(ts, sum) ==
  IF ts = <<>> THEN sum
  ELSE SumAmounts(Tail(ts), DAdd(sum, Number(Head(ts).amount)))

(***************************************************************************)
(* Dates.  A Date is [day, ms]: the local calendar day counted from        *)
(* 1970-01-01 and the millisecond within it (fixed offset to UTC).         *)
(***************************************************************************)
MsPerDay == 86400000

Date(day, ms) == [day |-> day, ms |-> ms]

\* a.getTime() - b.getTime() < 0, = 0
DateLess(a, b) == a.day < b.day \/ (a.day = b.day /\ a.ms < b.ms)

DateLeq(a, b) == a = b \/ DateLess(a, b)

\* Date.prototype.getDay: 0 is Sunday; 1970-01-01 was a Thursday
getDay(d) == (d.day + 4) % 7

\* Date.prototype.setDate(getDate() + n): calendar days, the time kept
AddDays(d, n) == Date(d.day + n, d.ms)

\* Date.prototype.setHours(h, m, s, ms)
setHours(d, h, m, sec, ms) == Date(d.day, ((h * 60 + m) * 60 + sec) * 1000 + ms)

(***************************************************************************)
(* Identifiers                                                             *)
(***************************************************************************)
\* nanoid(): the n-th identifier drawn; 21 symbols, never the 8 of a handle
nanoid(n) == <<"nanoid", n>>

chars ==
  << "A", "B", "C", "D", "E", "F", "G", "H", "I", "J", "K", "L", "M",
     "N", "O", "P", "Q", "R", "S", "T", "U", "V", "W", "X", "Y", "Z",
     "0", "1", "2", "3", "4", "5", "6", "7", "8", "9" >>

WeyIdLen == 8

\* How many outcomes of Math.random() the model draws from.
NumDraws == 3

\* Math.floor(Math.random() * chars.length), for each of the 8 characters:
\* the draws considered differ in the last character, whose index is one of
\* the first NumDraws - 1 or the last one.
RandomDraws ==
  { [i \in 1..WeyIdLen |-> IF i = WeyIdLen THEN k ELSE 0] :
      k \in (0..(NumDraws - 2)) \cup {Len(chars) - 1} }

\* generateWeyId() with a loop that stops one character early
generateWeyIdSeven ==
  { [i \in 1..(WeyIdLen - 1) |-> chars[d[i] + 1]] : d \in RandomDraws }

\* The strings generateWeyId() can return.
generateWeyId == { [i \in 1..WeyIdLen |-> chars[d[i] + 1]] : d \in RandomDraws }

(***************************************************************************)
(* State                                                                   *)
(***************************************************************************)
VARIABLES
  users,               \* MemoryStorage.users
  transactions,        \* MemoryStorage.transactions
  contacts,            \* MemoryStorage.contacts
  chatMessages,        \* MemoryStorage.chatMessages
  globalChatMessages,  \* MemoryStorage.globalChatMessages
  now,                 \* what new Date() returns
  nanoids,             \* how many identifiers nanoid() has returned
  last,                \* the last call served: what was asked, what came back
  requests             \* the calls waiting at an await, with what they hold

vars ==
  << users, transactions, contacts, chatMessages, globalChatMessages,
     now, nanoids, last, requests >>

\* null and undefined, apart from every record and from each other; a string
\* in a field that may hold them is Str(s)
null == [null |-> TRUE]

undefined == [undefined |-> TRUE]

Str(s) == [str |-> s]

\* whether a string, null or undefined counts as true in x || y
Truthy(x) == x # null /\ x # undefined /\ x.str # ""

\* A bound of the model: the identifiers nanoid() returns, at most.
MaxIds == 5

Clock0 == Date(7, 36000000)

Init ==
  /\ users = <<>>
  /\ transactions = <<>>
  /\ contacts = <<>>
  /\ chatMessages = <<>>
  /\ globalChatMessages = <<>>
  /\ now = Clock0
  /\ nanoids = 0
  /\ last = [op |-> "none"]
  /\ requests = {}

\* Time passes: new Date() returns a later instant of T.
Tick(T) ==
  /\ \E t \in T : DateLess(now, t) /\ now' = t
  /\ last' = [op |-> "none"]
  /\ UNCHANGED << users, transactions, contacts, chatMessages,
                  globalChatMessages, nanoids, requests >>

(***************************************************************************)
(* User directory                                                          *)
(***************************************************************************)
\* a lookup that finds nobody
getUserByPrivateKeyNobody(privateKey) == undefined

\* a lookup that returns the first stored user, whatever the key
getUserByPrivateKeyFirst(privateKey) ==
  IF users = <<>> THEN undefined ELSE users[1]

\* this.users.find(user => user.privateKey === privateKey)
getUserByPrivateKey(privateKey) ==
  LET found == { i \in 1..Len(users) : users[i].privateKey = privateKey }
  IN  IF found = {} THEN undefined
      ELSE users[CHOOSE i \in found : \A j \in found : i <= j]

\* this.users.find(user => user.weyId === weyId) || null
getUserByWeyId(weyId) ==
  LET found == { i \in 1..Len(users) : users[i].weyId = weyId }
  IN  IF found = {} THEN null
      ELSE users[CHOOSE i \in found : \A j \in found : i <= j]

\* this.users.find(user => user.id === id) || null
getUserById(id) ==
  LET found == { i \in 1..Len(users) : users[i].id = id }
  IN  IF found = {} THEN null
      ELSE users[CHOOSE i \in found : \A j \in found : i <= j]

\* createUser accepting the first handle generated, whoever holds it
isUniqueUnchecked(weyId) == TRUE

\* isUnique = !this.users.some(user => user.weyId === weyId)
isUnique(weyId) == ~ \E i \in 1..Len(users) : users[i].weyId = weyId

\* registerSchema.parse: privateKey of at least 20 characters
MinPrivateKeyLen == 20

registerSchema(body) == Len(body.privateKey) >= MinPrivateKeyLen

\* createUser leaves its do-while loop with a generated handle that
\* passed isUnique, and pushes the user.
createUser(insertUser, weyId) ==
  [ id            |-> nanoid(nanoids + 1),
    weyId         |-> weyId,
    fullName      |-> insertUser.fullName,
    privateKey    |-> insertUser.privateKey,
    monthlyTarget |-> insertUser.monthlyTarget,
    createdAt     |-> now ]

\* POST /api/auth/register, served from start to end
Register(body) ==
  /\ IF ~ registerSchema(body)
     THEN /\ last' = [op |-> "register", body |-> body, status |-> 400]
          /\ UNCHANGED << users, nanoids >>
     ELSE IF getUserByPrivateKey(body.privateKey) # undefined
     THEN /\ last' = [op |-> "register", body |-> body, status |-> 400]
          /\ UNCHANGED << users, nanoids >>
     ELSE \E weyId \in generateWeyId :
            /\ isUnique(weyId)
            /\ users' = Append(users, createUser(body, weyId))
            /\ nanoids' = nanoids + 1
            /\ last' = [op |-> "register", body |-> body, status |-> 200]
  /\ UNCHANGED << transactions, contacts, chatMessages,
                  globalChatMessages, now, requests >>

\* A bound of the model: the calls waiting at an await, at most.
MaxRequests == 2

\* The number a new waiting call goes by
FreeRequest ==
  CHOOSE n \in 1..(Cardinality(requests) + 1) :
    \A r \in requests : r.n # n

\* POST /api/auth/register up to its first await: the body is parsed,
\* getUserByPrivateKey has run, and the handler waits for what it returned
RegisterCheck(body) ==
  /\ IF ~ registerSchema(body)
     THEN /\ last' = [op |-> "register", body |-> body, status |-> 400]
          /\ UNCHANGED requests
     ELSE /\ requests' = requests \cup
            { [ n            |-> FreeRequest,
                op           |-> "register",
                body         |-> body,
                existingUser |-> getUserByPrivateKey(body.privateKey) ] }
          /\ last' = [op |-> "none"]
  /\ UNCHANGED << users, transactions, contacts, chatMessages,
                  globalChatMessages, now, nanoids >>

\* The rest of the handler looking for the credential once more
RegisterCreateLookingAgain(r) ==
  /\ r.op = "register"
  /\ IF getUserByPrivateKey(r.body.privateKey) # undefined
     THEN /\ last' = [op |-> "register", body |-> r.body, status |-> 400]
          /\ UNCHANGED << users, nanoids >>
     ELSE \E weyId \in generateWeyId :
            /\ isUnique(weyId)
            /\ users' = Append(users, createUser(r.body, weyId))
            /\ nanoids' = nanoids + 1
            /\ last' = [op |-> "register", body |-> r.body, status |-> 200]
  /\ requests' = requests \ {r}
  /\ UNCHANGED << transactions, contacts, chatMessages, globalChatMessages,
                  now >>

\* POST /api/auth/register from its first await on: existingUser is what
\* the check returned then; createUser runs to its end without an await,
\* and after it the handler only answers
RegisterCreate(r) ==
  /\ r.op = "register"
  /\ IF r.existingUser # undefined
     THEN /\ last' = [op |-> "register", body |-> r.body, status |-> 400]
          /\ UNCHANGED << users, nanoids >>
     ELSE \E weyId \in generateWeyId :
            /\ isUnique(weyId)
            /\ users' = Append(users, createUser(r.body, weyId))
            /\ nanoids' = nanoids + 1
            /\ last' = [op |-> "register", body |-> r.body, status |-> 200]
  /\ requests' = requests \ {r}
  /\ UNCHANGED << transactions, contacts, chatMessages, globalChatMessages,
                  now >>

\* storage.createUser(insertUser) is called and comes to its do-while loop
EnterCreateUser(insertUser) ==
  /\ requests' = requests \cup
       { [n |-> FreeRequest, op |-> "createUser", insertUser |-> insertUser] }
  /\ last' = [op |-> "none"]
  /\ UNCHANGED << users, transactions, contacts, chatMessages,
                  globalChatMessages, now, nanoids >>

\* One turn of a loop that gives up when the handle it drew is taken
IterateOnce(r, weyId) ==
  /\ r.op = "createUser"
  /\ IF isUnique(weyId)
     THEN /\ users' = Append(users, createUser(r.insertUser, weyId))
          /\ nanoids' = nanoids + 1
          /\ last' = [op |-> "createUser", settled |-> "resolved"]
     ELSE /\ last' = [op |-> "createUser", settled |-> "rejected"]
          /\ UNCHANGED << users, nanoids >>
  /\ requests' = requests \ {r}
  /\ UNCHANGED << transactions, contacts, chatMessages, globalChatMessages,
                  now >>

\* One turn of the do-while loop of createUser, generateWeyId() returning
\* weyId: with a handle no stored user has, the loop ends and the user is
\* pushed; with a taken one the loop goes round, everything as it was
Iterate(r, weyId) ==
  /\ r.op = "createUser"
  /\ IF isUnique(weyId)
     THEN /\ users' = Append(users, createUser(r.insertUser, weyId))
          /\ nanoids' = nanoids + 1
          /\ requests' = requests \ {r}
          /\ last' = [op |-> "createUser", settled |-> "resolved"]
     ELSE UNCHANGED << users, nanoids, requests, last >>
  /\ UNCHANGED << transactions, contacts, chatMessages, globalChatMessages,
                  now >>

\* loginSchema.parse: privateKey of at least one character
loginSchema(body) == Len(body.privateKey) >= 1

\* POST /api/auth/login: the user in the response is { id, fullName,
\* monthlyTarget } of the user found
Login(body) ==
  /\ last' =
       IF ~ loginSchema(body)
       THEN [op |-> "login", body |-> body, status |-> 400]
       ELSE LET user == getUserByPrivateKey(body.privateKey)
            IN  IF user = undefined
                THEN [op |-> "login", body |-> body, status |-> 401]
                ELSE [op |-> "login", body |-> body, status |-> 200,
                      user |-> [ id            |-> user.id,
                                 fullName      |-> user.fullName,
                                 monthlyTarget |-> user.monthlyTarget ]]
  /\ UNCHANGED << users, transactions, contacts, chatMessages,
                  globalChatMessages, now, nanoids, requests >>

(***************************************************************************)
(* Transaction store and analytics                                         *)
(***************************************************************************)
Types == {"income", "expense"}

Categories ==
  { "food", "transport", "shopping", "entertainment", "bills", "other",
    "salary", "freelance", "business", "investment", "bonus" }

\* insertTransactionSchema.parse: type and category of the enumerations
insertTransactionSchema(body) ==
  body.type \in Types /\ body.category \in Categories

\* Array.prototype.sort with (a, b) => b.date - a.date: latest first, equal
\* dates in the order they had (the sort is stable)
\* (rank @@ <<>> is rank: it makes TLC compute the ranks once)
SortByDateDesc(s) ==
  LET n    == Len(s)
      rank == [ i \in 1..n |->
                  Cardinality({ j \in 1..n :
                    \/ DateLess(s[i].date, s[j].date)
                    \/ (s[j].date = s[i].date /\ j < i) }) + 1 ] @@ <<>>
  IN  [ k \in 1..n |-> s[CHOOSE i \in 1..n : rank[i] = k] ]

\* The same sort with the comparison the other way round.
SortByDateAsc(s) ==
  LET n    == Len(s)
      rank == [ i \in 1..n |->
                  Cardinality({ j \in 1..n :
                    \/ DateLess(s[j].date, s[i].date)
                    \/ (s[j].date = s[i].date /\ j < i) }) + 1 ] @@ <<>>
  IN  [ k \in 1..n |-> s[CHOOSE i \in 1..n : rank[i] = k] ]

\* Array.prototype.slice(0, end)
slice(s, end) ==
  LET to == IF end < 0 THEN (IF Len(s) + end < 0 THEN 0 ELSE Len(s) + end)
            ELSE (IF end > Len(s) THEN Len(s) ELSE end)
  IN  SubSeq(s, 1, to)

\* getUserTransactions(userId, limit = 50)
DefaultLimit == 50

\* getUserTransactions without the filter on the owner
getUserTransactionsOfAll(userId, limit) ==
  slice(SortByDateDesc(transactions), limit)

\* getUserTransactions sorting the earliest first
getUserTransactionsAscending(userId, limit) ==
  slice(SortByDateAsc(SelectSeq(transactions, LAMBDA transaction :
          transaction.userId = userId)), limit)

getUserTransactions(userId, limit) ==
  slice(SortByDateDesc(SelectSeq(transactions, LAMBDA transaction :
          transaction.userId = userId)), limit)

createTransaction(transaction) ==
  [ id          |-> nanoid(nanoids + 1),
    userId      |-> transaction.userId,
    amount      |-> transaction.amount,
    type        |-> transaction.type,
    category    |-> transaction.category,
    description |-> IF Truthy(transaction.description)
                    THEN transaction.description ELSE null,
    date        |-> transaction.date,
    createdAt   |-> now ]

\* deleteTransaction removing the oldest stored transaction when none has
\* the id and the owner
deleteTransactionOrOldest(id, userId) ==
  IF \E i \in 1..Len(transactions) :
       transactions[i].id = id /\ transactions[i].userId = userId
  THEN SelectSeq(transactions, LAMBDA transaction :
         ~ (transaction.id = id /\ transaction.userId = userId))
  ELSE IF transactions = <<>> THEN <<>> ELSE Tail(transactions)

\* deleteTransaction removing the transaction whoever owns it
deleteTransactionAnyOwner(id, userId) ==
  SelectSeq(transactions, LAMBDA transaction : ~ (transaction.id = id))

deleteTransaction(id, userId) ==
  SelectSeq(transactions, LAMBDA transaction :
    ~ (transaction.id = id /\ transaction.userId = userId))

getUserBalance(userId) ==
  LET userTransactions ==
        SelectSeq(transactions, LAMBDA t : t.userId = userId)
      income  == SumAmounts(SelectSeq(userTransactions,
                   LAMBDA t : t.type = "income"), DZero)
      expense == SumAmounts(SelectSeq(userTransactions,
                   LAMBDA t : t.type = "expense"), DZero)
  IN  [income |-> income, expense |-> expense, balance |-> DSub(income, expense)]

\* getUserTransactionsByDateRange leaving out the two bounds
getUserTransactionsByDateRangeExclusive(userId, startDate, endDate) ==
  SortByDateDesc(SelectSeq(transactions, LAMBDA t :
    /\ t.userId = userId
    /\ DateLess(startDate, t.date)
    /\ DateLess(t.date, endDate)))

getUserTransactionsByDateRange(userId, startDate, endDate) ==
  SortByDateDesc(SelectSeq(transactions, LAMBDA t :
    /\ t.userId = userId
    /\ DateLeq(startDate, t.date)
    /\ DateLeq(t.date, endDate)))

\* The entries of categoryStats come out in the order the categories were
\* first met.
getUserCategoryStats(userId) ==
  LET expenseTransactions ==
        SelectSeq(transactions, LAMBDA t :
          t.userId = userId /\ t.type = "expense")
      n      == Len(expenseTransactions)
      firsts == { i \in 1..n : \A j \in 1..(i - 1) :
                    expenseTransactions[j].category
                      # expenseTransactions[i].category }
      nth(k) == CHOOSE i \in firsts :
                  Cardinality({ j \in firsts : j <= i }) = k
      stats(category) ==
        LET of == SelectSeq(expenseTransactions,
                    LAMBDA t : t.category = category)
        IN  [ category |-> category,
              total    |-> SumAmounts(of, DZero),
              count    |-> Len(of) ]
  IN  [ k \in 1..Cardinality(firsts) |->
          stats(expenseTransactions[nth(k)].category) ]

weekLabel(i) ==
  IF i = 0 THEN "Minggu Ini"
  ELSE IF i = 1 THEN "Minggu Lalu"
  ELSE ToString(i + 1) \o " Minggu Lalu"

\* One turn of the loop of getWeeklyStats.
weekBucket(userId, i) ==
  LET weekStart ==
        setHours(AddDays(now, 0 - (IF getDay(now) = 0 THEN 6
                                   ELSE getDay(now) - 1) - (i * 7)),
                 0, 0, 0, 0)
      weekEnd == setHours(AddDays(weekStart, 6), 23, 59, 59, 999)
      weekTransactions ==
        getUserTransactionsByDateRange(userId, weekStart, weekEnd)
      income  == SumAmounts(SelectSeq(weekTransactions,
                   LAMBDA t : t.type = "income"), DZero)
      expense == SumAmounts(SelectSeq(weekTransactions,
                   LAMBDA t : t.type = "expense"), DZero)
  IN  [ week      |-> weekLabel(i),
        income    |-> income,
        expense   |-> expense,
        balance   |-> DSub(income, expense),
        startDate |-> weekStart,
        endDate   |-> weekEnd ]

\* getWeeklyStats leaving out the weeks without a transaction
getWeeklyStatsSkipEmpty(userId, weekCount) ==
  SelectSeq([ k \in 1..weekCount |-> weekBucket(userId, k - 1) ],
            LAMBDA b : getUserTransactionsByDateRange(
                         userId, b.startDate, b.endDate) # <<>>)

getWeeklyStats(userId, weekCount) ==
  [ k \in 1..weekCount |-> weekBucket(userId, k - 1) ]

\* toLocaleDateString('id-ID', { day: '2-digit', month: '2-digit' }) of the
\* days from November 1969 to March 1970: day, "/", month
DayMonth(day) ==
  LET firsts == << [month |-> 11, first |-> 0 - 61],
                   [month |-> 12, first |-> 0 - 31],
                   [month |-> 1,  first |-> 0],
                   [month |-> 2,  first |-> 31],
                   [month |-> 3,  first |-> 59] >>
      m == CHOOSE i \in 1..Len(firsts) :
             /\ firsts[i].first <= day
             /\ i < Len(firsts) => day < firsts[i + 1].first
  IN  << day - firsts[m].first + 1, "/", firsts[m].month >>

\* DatabaseStorage.getWeeklyStats over the same transactions: the rows of
\* the user dated from weekCount * 7 days ago on, latest first, grouped by
\* the Sunday on or before their date; a row of another type than income
\* counts as expense
DatabaseStorage_getWeeklyStats(userId, weekCount) ==
  LET startDate == AddDays(now, 0 - (weekCount * 7))
      rows == SortByDateDesc(SelectSeq(transactions, LAMBDA t :
                t.userId = userId /\ DateLeq(startDate, t.date)))
      weekKey(t) == t.date.day - getDay(t.date)
      keys   == { weekKey(rows[i]) : i \in 1..Len(rows) }
      RECURSIVE sum(_, _, _)
      sum(ts, income, total) ==
        IF ts = <<>> THEN total
        ELSE sum(Tail(ts), income,
                 IF (Head(ts).type = "income") = income
                 THEN DAdd(total, parseFloat(Head(ts).amount)) ELSE total)
      entry(key) ==
        LET of == SelectSeq(rows, LAMBDA t : weekKey(t) = key)
        IN  [ week    |-> <<"Minggu ">> \o DayMonth(key) \o <<" - ">>
                            \o DayMonth(key + 6),
              income  |-> sum(of, TRUE, DZero),
              expense |-> sum(of, FALSE, DZero),
              balance |-> DSub(sum(of, TRUE, DZero), sum(of, FALSE, DZero)),
              transactionCount |-> Len(of),
              weekStart |-> key ]
      sorted == [ k \in 1..Cardinality(keys) |->
                    entry(CHOOSE key \in keys :
                            Cardinality({ other \in keys : other > key })
                              = k - 1) ]
  IN  slice(sorted, weekCount)

\* thirtyDaysAgo.setDate(thirtyDaysAgo.getDate() - 30)
WindowDays == 30

\* The groups of the averages endpoint, in the order their keys
\* `${type}_${category}` were first met, as the entries of the response
Averages(found) ==
  LET n      == Len(found)
      key(t) == <<t.type, "_", t.category>>
      firsts == { i \in 1..n : \A j \in 1..(i - 1) :
                    key(found[j]) # key(found[i]) }
      nth(k) == CHOOSE i \in firsts :
                  Cardinality({ j \in firsts : j <= i }) = k
      total(ts) == IF ts = <<>> THEN DZero
                   ELSE LET RECURSIVE add(_, _)
                            add(rest, sum) ==
                              IF rest = <<>> THEN sum
                              ELSE add(Tail(rest),
                                       DAdd(sum, parseFloat(Head(rest).amount)))
                        IN  add(ts, DZero)
      entry(first) ==
        LET of == SelectSeq(found, LAMBDA t : key(t) = key(first))
        IN  [ type             |-> first.type,
              category         |-> first.category,
              averageAmount    |-> MathRound(DDiv(total(of), Len(of))),
              transactionCount |-> Len(of) ]
  IN  [ k \in 1..Cardinality(firsts) |-> entry(found[nth(k)]) ]

\* The averages endpoint answering only with the groups of two
\* transactions or more
averagesOfFrequent(userId) ==
  SelectSeq(
    Averages(getUserTransactionsByDateRange(userId, AddDays(now, 0 - WindowDays), now)),
    LAMBDA avg : avg.transactionCount >= 2)

\* GET /api/analytics/averages/:userId
averages(userId) ==
  Averages(getUserTransactionsByDateRange(userId, AddDays(now, 0 - WindowDays), now))

\* POST /api/transactions/:userId
PostTransaction(userId, body) ==
  /\ IF ~ insertTransactionSchema(body)
     THEN /\ last' = [op |-> "createTransaction", userId |-> userId,
                      body |-> body, status |-> 400]
          /\ UNCHANGED << transactions, nanoids >>
     ELSE LET transaction ==
                createTransaction(
                  [ userId      |-> userId,
                    amount      |-> body.amount,
                    type        |-> body.type,
                    category    |-> body.category,
                    description |-> body.description,
                    date        |-> body.date ])
          IN  /\ transactions' = Append(transactions, transaction)
              /\ nanoids' = nanoids + 1
              /\ last' = [op |-> "createTransaction", userId |-> userId,
                          body |-> body, status |-> 200,
                          transaction |-> transaction]
  /\ UNCHANGED << users, contacts, chatMessages, globalChatMessages,
                  now, requests >>

\* DELETE /api/transactions/:userId/:transactionId
DeleteTransaction(userId, transactionId) ==
  /\ transactions' = deleteTransaction(transactionId, userId)
  /\ last' = [op |-> "deleteTransaction", userId |-> userId,
              id |-> transactionId, status |-> 200]
  /\ UNCHANGED << users, contacts, chatMessages, globalChatMessages,
                  now, nanoids, requests >>

(***************************************************************************)
(* Messaging store                                                         *)
(***************************************************************************)
addContact(userId, data) ==
  [ id           |-> nanoid(nanoids + 1),
    userId       |-> userId,
    contactWeyId |-> data.contactWeyId,
    contactName  |-> data.contactName,
    createdAt    |-> now ]

AddContact(userId, data) ==
  /\ contacts' = Append(contacts, addContact(userId, data))
  /\ nanoids' = nanoids + 1
  /\ last' = [op |-> "addContact", userId |-> userId, data |-> data,
              settled |-> "resolved"]
  /\ UNCHANGED << users, transactions, chatMessages,
                  globalChatMessages, now, requests >>

deleteContact(userId, contactId) ==
  SelectSeq(contacts, LAMBDA contact :
    ~ (contact.id = contactId /\ contact.userId = userId))

DeleteContact(userId, contactId) ==
  /\ contacts' = deleteContact(userId, contactId)
  /\ last' = [op |-> "deleteContact", userId |-> userId, id |-> contactId,
              settled |-> "resolved"]
  /\ UNCHANGED << users, transactions, chatMessages, globalChatMessages,
                  now, nanoids, requests >>

\* { id, fromUserId, ...data, messageType, isRead: false, createdAt }: the
\* isRead of data is overwritten
sendMessage(fromUserId, data) ==
  [ id          |-> nanoid(nanoids + 1),
    fromUserId  |-> fromUserId,
    toWeyId     |-> data.toWeyId,
    content     |-> data.content,
    messageType |-> IF Truthy(data.messageType) THEN data.messageType
                    ELSE Str("text"),
    isRead      |-> FALSE,
    createdAt   |-> now ]

SendMessage(fromUserId, data) ==
  /\ chatMessages' = Append(chatMessages, sendMessage(fromUserId, data))
  /\ nanoids' = nanoids + 1
  /\ last' = [op |-> "sendMessage", userId |-> fromUserId, data |-> data,
              settled |-> "resolved"]
  /\ UNCHANGED << users, transactions, contacts, globalChatMessages,
                  now, requests >>

\* markMessagesAsRead from its await on, contactUser being what
\* getUserByWeyId returned
markMessagesAsReadOf(userId, contactUser) ==
  IF contactUser = null THEN chatMessages
  ELSE [ i \in 1..Len(chatMessages) |->
           LET msg == chatMessages[i]
           IN  IF /\ msg.fromUserId = contactUser.id
                  /\ msg.toWeyId = userId
                  /\ ~ msg.isRead
               THEN [msg EXCEPT !.isRead = TRUE]
               ELSE msg ]

markMessagesAsRead(userId, contactWeyId) ==
  markMessagesAsReadOf(userId, getUserByWeyId(contactWeyId))

MarkMessagesAsRead(userId, contactWeyId) ==
  /\ chatMessages' = markMessagesAsRead(userId, contactWeyId)
  /\ last' = [op |-> "markMessagesAsRead", userId |-> userId,
              contactWeyId |-> contactWeyId, settled |-> "resolved"]
  /\ UNCHANGED << users, transactions, contacts, globalChatMessages,
                  now, nanoids, requests >>

sendGlobalMessage(userId, data) ==
  [ id        |-> nanoid(nanoids + 1),
    userId    |-> userId,
    content   |-> data.content,
    createdAt |-> now ]

SendGlobalMessage(userId, data) ==
  /\ globalChatMessages' =
       Append(globalChatMessages, sendGlobalMessage(userId, data))
  /\ nanoids' = nanoids + 1
  /\ last' = [op |-> "sendGlobalMessage", userId |-> userId, data |-> data,
              settled |-> "resolved"]
  /\ UNCHANGED << users, transactions, contacts, chatMessages, now,
                  requests >>

\* The mutating operations with an await between what they look up and
\* what they write, and createUser among them
AwaitingAndCreateUser == { "markMessagesAsRead", "createUser" }

\* The mutating operations with an await between what they look up and
\* what they write: markMessagesAsRead awaits getUserByWeyId; no other has
\* an await in its body.
Awaiting == { "markMessagesAsRead" }

\* What a call does to the store after its lookups: c holds them
Run(c) ==
  /\ IF c.op = "createUser"
     THEN /\ users' = Append(users, createUser(c.insertUser, c.weyId))
          /\ nanoids' = nanoids + 1
          /\ UNCHANGED chatMessages
     ELSE /\ chatMessages' = markMessagesAsReadOf(c.userId, c.contactUser)
          /\ UNCHANGED << users, nanoids >>
  /\ last' = [op |-> c.op, call |-> c, settled |-> "resolved"]
  /\ UNCHANGED << transactions, contacts, globalChatMessages, now >>

\* A call runs up to its first await: to its end when it has none
Begin(c) ==
  IF c.op \in Awaiting
  THEN /\ requests' = requests \cup {[c EXCEPT !.n = FreeRequest]}
       /\ last' = [op |-> "none"]
       /\ UNCHANGED << users, transactions, contacts, chatMessages,
                       globalChatMessages, now, nanoids >>
  ELSE /\ Run(c)
       /\ UNCHANGED requests

\* A waiting call goes on from its await to its end
Resume(r) ==
  /\ r.op \in { "createUser", "markMessagesAsRead" }
  /\ Run(r)
  /\ requests' = requests \ {r}

\* storage.createUser(insertUser): the loop ends with a handle that no
\* stored user has
CallCreateUser(insertUser) ==
  \E weyId \in generateWeyId :
    /\ isUnique(weyId)
    /\ Begin([ n |-> 0, op |-> "createUser", insertUser |-> insertUser,
               weyId |-> weyId ])

\* storage.markMessagesAsRead(userId, contactWeyId)
CallMarkMessagesAsRead(userId, contactWeyId) ==
  Begin([ n |-> 0, op |-> "markMessagesAsRead", userId |-> userId,
          contactWeyId |-> contactWeyId,
          contactUser |-> getUserByWeyId(contactWeyId) ])

\* Array.prototype.sort with (a, b) => b.createdAt - a.createdAt: latest
\* first, equal instants in the order they had
SortByCreatedAtDesc(s) ==
  LET n    == Len(s)
      rank == [ i \in 1..n |->
                  Cardinality({ j \in 1..n :
                    \/ DateLess(s[i].createdAt, s[j].createdAt)
                    \/ (s[j].createdAt = s[i].createdAt /\ j < i) }) + 1 ] @@ <<>>
  IN  [ k \in 1..n |-> s[CHOOSE i \in 1..n : rank[i] = k] ]

getChatMessages(userId, contactWeyId, limit) ==
  LET contactUser == getUserByWeyId(contactWeyId)
  IN  IF contactUser = null THEN <<>>
      ELSE LET kept ==
                 slice(SortByCreatedAtDesc(SelectSeq(chatMessages, LAMBDA msg :
                   \/ (msg.fromUserId = userId /\ msg.toWeyId = contactWeyId)
                   \/ (msg.fromUserId = contactUser.id
                        /\ msg.toWeyId = userId))), limit)
           IN  [ k \in 1..Len(kept) |->
                   [ id                |-> kept[k].id,
                     content           |-> kept[k].content,
                     messageType       |-> kept[k].messageType,
                     isRead            |-> kept[k].isRead,
                     createdAt         |-> kept[k].createdAt,
                     fromUserId        |-> kept[k].fromUserId,
                     isFromCurrentUser |-> kept[k].fromUserId = userId ] ]

\* contactUser?.id is undefined without a contactUser, and equal to no
\* fromUserId
getUserContacts(userId) ==
  LET userContacts ==
        SelectSeq(contacts, LAMBDA contact : contact.userId = userId)
      enrich(contact) ==
        LET contactUser == getUserByWeyId(contact.contactWeyId)
            exchanged ==
              SortByCreatedAtDesc(SelectSeq(chatMessages, LAMBDA msg :
                \/ (msg.fromUserId = userId
                     /\ msg.toWeyId = contact.contactWeyId)
                \/ (msg.toWeyId = userId
                     /\ contactUser # null
                     /\ msg.fromUserId = contactUser.id)))
            unreadCount ==
              Len(SelectSeq(chatMessages, LAMBDA msg :
                /\ contactUser # null
                /\ msg.fromUserId = contactUser.id
                /\ msg.toWeyId = userId
                /\ ~ msg.isRead))
        IN  [ id              |-> contact.id,
              contactName     |-> contact.contactName,
              contactWeyId    |-> contact.contactWeyId,
              lastMessage     |-> IF exchanged # <<>>
                                     /\ exchanged[1].content # ""
                                  THEN exchanged[1].content ELSE "",
              lastMessageTime |-> IF exchanged # <<>>
                                  THEN exchanged[1].createdAt
                                  ELSE contact.createdAt,
              unreadCount     |-> unreadCount ]
  IN  [ k \in 1..Len(userContacts) |-> enrich(userContacts[k]) ]

\* getGlobalChatMessages(limit): sort() sorts this.globalChatMessages
\* itself; the answer is made of the first limit of it
GetGlobalChatMessages(limit) ==
  LET messages == slice(SortByCreatedAtDesc(globalChatMessages), limit)
  IN  /\ globalChatMessages' = SortByCreatedAtDesc(globalChatMessages)
      /\ last' = [ op |-> "getGlobalChatMessages", limit |-> limit,
                   result |->
                     [ k \in 1..Len(messages) |->
                         LET msg  == messages[k]
                             user == getUserById(msg.userId)
                         IN  [ id        |-> msg.id,
                               content   |-> msg.content,
                               createdAt |-> msg.createdAt,
                               user      |->
                                 IF user # null
                                 THEN [ id       |-> user.id,
                                        fullName |-> user.fullName,
                                        weyId    |-> user.weyId ]
                                 ELSE null ] ] ]
      /\ UNCHANGED << users, transactions, contacts, chatMessages, now,
                      nanoids, requests >>

\* A call of a reading operation that works on what filter() returned
Get(op, userId, result) ==
  /\ last' = [op |-> op, userId |-> userId, result |-> result]
  /\ UNCHANGED << users, transactions, contacts, chatMessages,
                  globalChatMessages, now, nanoids, requests >>

(***************************************************************************)
(* The user directory, alone and with the contacts                         *)
(***************************************************************************)
\* Bounds of the model: stored users, contacts and direct messages at most
MaxUsers == 2

MaxContacts == 2

MaxMessages == 2

PrivateKeys ==
  { "wey_4f9a1c7e2b8d0a6f3e5c", "wey_7b2e9d4c1a8f0e6b3d5a",
    "wey_0c5d8e1f4a7b2c9d6e3f", "wey_short" }

Bodies ==
  { [fullName |-> "Ani", privateKey |-> k, monthlyTarget |-> "2000000"] :
      k \in PrivateKeys }

UserIds == { users[i].id : i \in 1..Len(users) }

ContactIds == { contacts[i].id : i \in 1..Len(contacts) }

Later == { Date(8, 0) }

LoginBodies == { [privateKey |-> k] : k \in PrivateKeys \cup {""} }

Next ==
  \/ \E body \in Bodies : Register(body) /\ Len(users') <= MaxUsers
  \/ \E body \in LoginBodies : Login(body)
  \/ Tick(Later)

Spec == Init /\ [][Next]_vars

\* The registrations of the specifications that are about what users do
\* once registered: two valid credentials.
Members ==
  { [fullName |-> "Ani", privateKey |-> k, monthlyTarget |-> "2000000"] :
      k \in { "wey_4f9a1c7e2b8d0a6f3e5c", "wey_7b2e9d4c1a8f0e6b3d5a" } }

NextContacts ==
  \/ \E body \in Members : Register(body) /\ Len(users') <= MaxUsers
  \/ \E userId \in UserIds, weyId \in generateWeyId :
       /\ Len(contacts) < MaxContacts
       /\ nanoids < MaxIds
       /\ AddContact(userId, [contactWeyId |-> weyId, contactName |-> "Budi"])
  \/ \E userId \in UserIds, contactId \in ContactIds :
       DeleteContact(userId, contactId)

SpecContacts == Init /\ [][NextContacts]_vars

(***************************************************************************)
(* The user directory with register requests served at the same time       *)
(***************************************************************************)
NextRace ==
  \/ \E body \in Bodies :
       /\ Cardinality(requests) < MaxRequests
       /\ Len(users) + Cardinality(requests) < MaxUsers
       /\ RegisterCheck(body)
  \/ \E r \in requests : RegisterCreate(r)
  \/ \E body \in LoginBodies : Login(body)

SpecRace == Init /\ [][NextRace]_vars

(***************************************************************************)
(* The user directory with the loop of createUser turn by turn: nothing    *)
(* else runs while the loop does, and the handles are as many as the model *)
(* draws                                                                   *)
(***************************************************************************)
NextLoop ==
  \/ \E insertUser \in Members :
       /\ requests = {}
       /\ EnterCreateUser(insertUser)
  \/ \E r \in requests, weyId \in generateWeyId : Iterate(r, weyId)
  \/ \E body \in LoginBodies :
       /\ requests = {}
       /\ Login(body)

\* Math.random() returns every value again and again: a turn with a
\* handle that ends the loop is not put off for ever
SpecLoop ==
  /\ Init
  /\ [][NextLoop]_vars
  /\ \A weyId \in generateWeyId :
       WF_vars(\E r \in requests : Iterate(r, weyId))

(***************************************************************************)
(* The user directory with the direct messages                             *)
(***************************************************************************)
\* What callers pass as data: a plain text message, or a ping that also
\* carries isRead: true.
MessageData ==
  { [toWeyId |-> to, content |-> kind[3], messageType |-> kind[1],
     isRead |-> kind[2]] :
      to \in generateWeyId \cup UserIds,
      kind \in { <<undefined, undefined, "halo">>,
                 <<Str("ping"), TRUE, "ping!">> } }

NextChat ==
  \/ \E body \in Members : Register(body) /\ Len(users') <= MaxUsers
  \/ \E fromUserId \in UserIds, data \in MessageData :
       /\ Len(chatMessages) < MaxMessages
       /\ nanoids < MaxIds
       /\ SendMessage(fromUserId, data)
  \/ \E userId \in UserIds, weyId \in generateWeyId :
       MarkMessagesAsRead(userId, weyId)
  \/ Tick(Later)

SpecChat == Init /\ [][NextChat]_vars

(***************************************************************************)
(* The user directory with the contacts and the direct messages            *)
(***************************************************************************)
\* Plain text messages only
InboxData == { data \in MessageData : data.messageType = undefined }

NextInbox ==
  \/ \E body \in Members : Register(body) /\ Len(users') <= MaxUsers
  \/ \E userId \in UserIds, weyId \in generateWeyId :
       /\ Len(contacts) < MaxContacts - 1
       /\ nanoids < MaxIds - 1
       /\ AddContact(userId, [contactWeyId |-> weyId, contactName |-> "Budi"])
  \/ \E fromUserId \in UserIds, data \in InboxData :
       /\ Len(chatMessages) < MaxMessages
       /\ nanoids < MaxIds - 1
       /\ SendMessage(fromUserId, data)
  \/ \E userId \in UserIds, weyId \in generateWeyId :
       MarkMessagesAsRead(userId, weyId)
  \/ Tick(Later)

SpecInbox == Init /\ [][NextInbox]_vars

(***************************************************************************)
(* The transaction store: balance, categories, delete                      *)
(***************************************************************************)
\* Bounds of the model: transactions created at most, weeks asked for at most
MaxTx == 3

MaxWeeks == 3

\* The user ids the requests carry in their URL: the store takes any string.
Callers == { nanoid(101), nanoid(102) }

TxIds == { transactions[i].id : i \in 1..Len(transactions) }

\* The transaction ids a request may name: those of the transactions created
\* so far, stored or deleted since.
IssuedIds == { nanoid(i) : i \in 1..nanoids }

Body(type, category, amount, description, date) ==
  [ type |-> type, category |-> category, amount |-> amount,
    description |-> description, date |-> date ]

Amount010 == <<"0", ".", "1", "0">>

Amount020 == <<"0", ".", "2", "0">>

Amount50000 == <<"5", "0", "0", "0", "0">>

AmountMinus5 == <<"-", "5">>

TxBodies ==
  { Body("income", "salary", Amount010, undefined, Clock0),
    Body("income", "salary", Amount020, undefined, Clock0),
    Body("income", "food", Amount50000, undefined, Clock0),
    Body("expense", "food", Amount010, undefined, Clock0),
    Body("expense", "food", Amount020, undefined, Clock0),
    Body("expense", "transport", Amount50000, undefined, Clock0),
    Body("expense", "makan", Amount50000, undefined, Clock0),
    Body("expense", "food", AmountMinus5, undefined, Clock0) }

NextTx ==
  \/ \E userId \in Callers, body \in TxBodies :
       /\ nanoids < MaxTx
       /\ PostTransaction(userId, body)
  \/ \E userId \in Callers, id \in IssuedIds : DeleteTransaction(userId, id)

SpecTx == Init /\ [][NextTx]_vars

(***************************************************************************)
(* The transaction store: weeks                                            *)
(***************************************************************************)
\* Clock0 is Thursday 1970-01-08; its week runs from Monday, day 4, to
\* Sunday, day 10.
WeekDates ==
  { Date(0 - 4, 43200000), Date(3, MsPerDay - 1), Date(4, 0),
    Date(10, MsPerDay - 1) }

WeekBodies ==
  { Body(type, "other", Amount50000, undefined, date) :
      type \in Types, date \in WeekDates }

WeekClock == { Date(10, MsPerDay - 1), Date(11, 0) }

NextWeek ==
  \/ \E userId \in Callers, body \in WeekBodies :
       /\ nanoids < MaxTx - 1
       /\ PostTransaction(userId, body)
  \/ \E userId \in Callers, id \in TxIds : DeleteTransaction(userId, id)
  \/ Tick(WeekClock)

SpecWeek == Init /\ [][NextWeek]_vars

(***************************************************************************)
(* The transaction store with a user who already has DefaultLimit - 1      *)
(* transactions                                                            *)
(***************************************************************************)
Prefilled == DefaultLimit - 1

InitList ==
  /\ users = <<>>
  /\ transactions =
       [ i \in 1..Prefilled |->
           [ id          |-> nanoid(i),
             userId      |-> nanoid(101),
             amount      |-> Amount50000,
             type        |-> "expense",
             category    |-> "food",
             description |-> null,
             date        |-> Clock0,
             createdAt   |-> Clock0 ] ]
  /\ contacts = <<>>
  /\ chatMessages = <<>>
  /\ globalChatMessages = <<>>
  /\ now = Clock0
  /\ nanoids = Prefilled
  /\ last = [op |-> "none"]
  /\ requests = {}

ListBodies ==
  { Body("expense", "food", Amount010, description, date) :
      description \in {undefined, Str(""), Str("Makan siang")},
      date \in {Date(6, 0), Date(8, 0)} }

NextList ==
  \/ \E userId \in Callers, body \in ListBodies :
       /\ nanoids < Prefilled + MaxTx - 1
       /\ PostTransaction(userId, body)
  \/ \E userId \in Callers, id \in { nanoid(i) : i \in Prefilled..nanoids } :
       DeleteTransaction(userId, id)

SpecList == InitList /\ [][NextList]_vars

\* The averages endpoint: amounts whose mean has a fraction, and dates on
\* both sides of the two ends of the thirty days
Amount250 == <<"2", ".", "5", "0">>

AvgBodies ==
  { Body("income", "salary", Amount010, undefined, Clock0),
    Body("income", "salary", Amount020, undefined, Clock0),
    Body("income", "salary", Amount250, undefined, AddDays(Clock0, 0 - WindowDays)),
    Body("expense", "food", Amount250, undefined, Clock0),
    Body("expense", "food", Amount50000, undefined,
         Date(Clock0.day - WindowDays, Clock0.ms - 1)),
    Body("expense", "food", Amount010, undefined, Date(8, 0)),
    Body("expense", "transport", Amount50000, undefined, Clock0),
    Body("expense", "food", AmountMinus5, undefined, Clock0) }

NextAvg ==
  \/ \E userId \in Callers, body \in AvgBodies :
       /\ nanoids < MaxTx
       /\ PostTransaction(userId, body)
  \/ Tick(Later)

SpecAvg == Init /\ [][NextAvg]_vars

\* The weeks as a span: dates at the last millisecond of a week, at the
\* first of the next and before the oldest week asked for, and amounts
\* that are no binary fractions
SpanDates == { Date(0 - 11, MsPerDay - 1), Date(3, MsPerDay - 1), Date(4, 0) }

SpanBodies ==
  { Body("income", "salary", amount, undefined, date) :
      amount \in {Amount010, Amount020}, date \in SpanDates }
    \cup { Body("expense", "food", Amount50000, undefined, Date(4, 0)) }

NextSpan ==
  \/ \E userId \in Callers, body \in SpanBodies :
       /\ nanoids < MaxTx
       /\ PostTransaction(userId, body)
  \/ Tick(WeekClock)

SpecSpan == Init /\ [][NextSpan]_vars

(***************************************************************************)
(* The store with its reading operations                                   *)
(***************************************************************************)
NextReads ==
  \/ \E body \in Members : Register(body) /\ Len(users') <= MaxUsers - 1
  \/ \E userId \in UserIds \cup {nanoid(101)},
        content \in { "halo", "apa kabar" } :
       /\ Len(globalChatMessages) < MaxMessages
       /\ SendGlobalMessage(userId, [content |-> content])
  \/ \E userId \in UserIds :
       /\ Len(transactions) < MaxTx - 2
       /\ PostTransaction(userId, Body("income", "salary", Amount50000,
                                       undefined, Clock0))
  \/ \E limit \in { MaxMessages - 1, DefaultLimit } :
       GetGlobalChatMessages(limit)
  \/ \E userId \in UserIds :
       \/ Get("getUserTransactions", userId,
              getUserTransactions(userId, DefaultLimit))
       \/ Get("getUserBalance", userId, getUserBalance(userId))
       \/ Get("getUserCategoryStats", userId, getUserCategoryStats(userId))
       \/ Get("getWeeklyStats", userId, getWeeklyStats(userId, MaxWeeks))
       \/ Get("getUserContacts", userId, getUserContacts(userId))
       \/ Get("getChatMessages", userId,
              getChatMessages(userId, users[1].weyId, DefaultLimit))
  \/ Tick(Later)

SpecReads == Init /\ [][NextReads]_vars

(***************************************************************************)
(* The store with calls made at the same time                              *)
(***************************************************************************)
\* Messages to the ids of users, which markMessagesAsRead compares with
DataToUsers ==
  { [toWeyId |-> to, content |-> "halo", messageType |-> undefined,
     isRead |-> undefined] : to \in UserIds }

Waiting(op) == Cardinality({ r \in requests : r.op = op })

NextCalls ==
  \/ \E insertUser \in Members :
       /\ Len(users) + Waiting("createUser") < MaxUsers
       /\ CallCreateUser(insertUser)
  \/ \E userId \in UserIds, weyId \in generateWeyId :
       /\ Cardinality(requests) < MaxRequests
       /\ CallMarkMessagesAsRead(userId, weyId)
  \/ \E r \in requests : Resume(r)
  \/ \E fromUserId \in UserIds, data \in DataToUsers :
       /\ Len(chatMessages) < MaxMessages
       /\ nanoids < MaxIds - 2
       /\ SendMessage(fromUserId, data)
  \/ \E userId \in UserIds :
       /\ nanoids < MaxIds - 2
       /\ SendGlobalMessage(userId, [content |-> "halo"])
  \/ \E userId \in UserIds :
       /\ nanoids < MaxIds - 2
       /\ AddContact(userId, [contactWeyId |-> users[1].weyId,
                               contactName |-> "Budi"])
  \/ \E userId \in UserIds, contactId \in ContactIds :
       DeleteContact(userId, contactId)
  \/ \E userId \in UserIds :
       /\ nanoids < MaxIds - 2
       /\ PostTransaction(userId, Body("income", "salary", Amount50000,
                                       undefined, Clock0))
  \/ \E userId \in UserIds, id \in TxIds : DeleteTransaction(userId, id)

SpecCalls == Init /\ [][NextCalls]_vars

(***************************************************************************)
(* Claims                                                                  *)
(***************************************************************************)
\* C1: whatever register requests have been served one after the other, no
\* two stored users share a handle and no two share a credential.
UniqueHandlesAndCredentials ==
  \A i, j \in 1..Len(users) :
    i # j => /\ users[i].weyId # users[j].weyId
             /\ users[i].privateKey # users[j].privateKey

\* C1 happens: a second user has just been registered, and a register
\* request carrying a stored credential has been turned down.
TwoUsersRegistered ==
  /\ Len(users) = 2
  /\ last.op = "register"
  /\ last.status = 400
  /\ getUserByPrivateKey(last.body.privateKey) # undefined

\* C7: sendMessage to a handle no stored user has fails and leaves the
\* stored direct messages as they were.
SendToUnknownHandleFails ==
  [][ (last'.op = "sendMessage" /\ getUserByWeyId(last'.data.toWeyId) = null)
        => (last'.settled = "rejected" /\ chatMessages' = chatMessages) ]_vars

\* C8: markMessagesAsRead(owner, contactHandle) sets read on exactly the
\* unread messages addressed to the owner's handle by the user who has
\* contactHandle, and leaves every other message as it was.
MarkReadFlipsExactlyTheConversation ==
  [][ last'.op = "markMessagesAsRead" =>
        LET owner       == getUserById(last'.userId)
            contactUser == getUserByWeyId(last'.contactWeyId)
        IN  /\ Len(chatMessages') = Len(chatMessages)
            /\ \A i \in 1..Len(chatMessages) :
                 LET msg == chatMessages[i]
                 IN  chatMessages'[i] =
                       IF /\ ~ msg.isRead
                          /\ msg.toWeyId = owner.weyId
                          /\ contactUser # null
                          /\ msg.fromUserId = contactUser.id
                       THEN [msg EXCEPT !.isRead = TRUE]
                       ELSE msg ]_vars

\* C9: addContact for a handle no stored user has fails as not found and
\* adds no contact.
AddContactUnknownHandleFails ==
  [][ (last'.op = "addContact" /\ getUserByWeyId(last'.data.contactWeyId) = null)
        => (last'.settled = "rejected" /\ contacts' = contacts) ]_vars

\* C10: no user owns two contacts with the same target handle.
NoDuplicateContact ==
  \A i, j \in 1..Len(contacts) :
    (contacts[i].userId = contacts[j].userId
       /\ contacts[i].contactWeyId = contacts[j].contactWeyId) => i = j


\* Exact decimal arithmetic, in hundredths, for the claims
Cents(amount) ==
  LET p == ParseDecimal(amount)
  IN  (IF p.neg THEN 0 - 1 ELSE 1) * p.n * (10 ^ (2 - p.k))

RECURSIVE SumCents(_)
SumCents(ts) ==
  IF ts = <<>> THEN 0 ELSE Cents(Head(ts).amount) + SumCents(Tail(ts))

\* The number a decimal amount of so many hundredths reads as.
Exact(cents) ==
  ToDouble(cents < 0, IF cents < 0 THEN 0 - cents ELSE cents, 100)

Of(userId, type) ==
  SelectSeq(transactions, LAMBDA t : t.userId = userId /\ t.type = type)

\* C2: getUserBalance(u) returns the sum of u's income amounts, the sum of
\* u's expense amounts and their difference; all three 0 without transactions.
BalanceIsSumOfAmounts ==
  \A u \in Callers :
    getUserBalance(u) =
      [ income  |-> Exact(SumCents(Of(u, "income"))),
        expense |-> Exact(SumCents(Of(u, "expense"))),
        balance |-> Exact(SumCents(Of(u, "income"))
                            - SumCents(Of(u, "expense"))) ]

\* C3: deleteTransaction(id, userId) with the id of a transaction owned by
\* another user leaves every stored transaction as it was.
DeleteOfAnothersTransactionChangesNothing ==
  [][ ( /\ last'.op = "deleteTransaction"
        /\ \E i \in 1..Len(transactions) :
             /\ transactions[i].id = last'.id
             /\ transactions[i].userId # last'.userId )
        => transactions' = transactions ]_vars

\* C3 happens: a delete has just been served whose id is that of a stored
\* transaction of another user.
DeletedAnothersTransaction ==
  /\ last.op = "deleteTransaction"
  /\ \E i \in 1..Len(transactions) :
       /\ transactions[i].id = last.id
       /\ transactions[i].userId # last.userId

\* The week i weeks before the current one: Monday 00:00:00.000 to Sunday
\* 23:59:59.999.
Monday(i) == now.day - ((getDay(now) + 6) % 7) - 7 * i

InWeek(t, i) == Monday(i) <= t.date.day /\ t.date.day <= Monday(i) + 6

\* C4: getWeeklyStats(u, n) returns n buckets for every n >= 0, and the
\* bucket of a week without a transaction of u holds three zeros.
WeeklyStatsHasEveryWeek ==
  \A u \in Callers, n \in 0..MaxWeeks :
    LET stats == getWeeklyStats(u, n)
    IN  /\ Len(stats) = n
        /\ \A i \in 0..(n - 1) :
             (~ \E k \in 1..Len(transactions) :
                  transactions[k].userId = u /\ InWeek(transactions[k], i))
               => /\ stats[i + 1].income = DZero
                  /\ stats[i + 1].expense = DZero
                  /\ stats[i + 1].balance = DZero

\* C4 happens: of the weeks asked for, one holds a transaction of the user
\* and an earlier one holds none.
WeekWithAndWeekWithout ==
  \E u \in Callers :
    /\ \E k \in 1..Len(transactions) :
         transactions[k].userId = u /\ InWeek(transactions[k], 0)
    /\ ~ \E k \in 1..Len(transactions) :
           transactions[k].userId = u /\ InWeek(transactions[k], 1)
    /\ Len(getWeeklyStats(u, MaxWeeks)) = MaxWeeks

\* C5: getUserCategoryStats(u) has one entry for each category in which u
\* has an expense, with the sum and the number of those expenses, and no
\* other entry.
CategoryStatsAreSumsPerCategory ==
  \A u \in Callers :
    LET stats    == getUserCategoryStats(u)
        expenses == Of(u, "expense")
        in(c)    == SelectSeq(expenses, LAMBDA t : t.category = c)
    IN  /\ \A k \in 1..Len(stats) :
             /\ stats[k].count > 0
             /\ in(stats[k].category) # <<>>
             /\ \A j \in 1..Len(stats) :
                  stats[j].category = stats[k].category => j = k
        /\ \A i \in 1..Len(expenses) :
             \E k \in 1..Len(stats) :
               /\ stats[k].category = expenses[i].category
               /\ stats[k].count = Len(in(expenses[i].category))
               /\ stats[k].total = Exact(SumCents(in(expenses[i].category)))


\* What the last create request asked for is found in what listing returns.
Listed(sameDescription(_, _)) ==
  LET body == last.body
      list == getUserTransactions(last.userId, DefaultLimit)
  IN  \E i \in 1..Len(list) :
        /\ list[i].id = last.transaction.id
        /\ list[i].amount = body.amount
        /\ list[i].category = body.category
        /\ list[i].type = body.type
        /\ sameDescription(list[i].description, body.description)

Created == last.op = "createTransaction" /\ last.status = 200

\* C6 as stated: a transaction just created is in the list that
\* getUserTransactions returns with the default limit, with the amount,
\* category, type and description supplied (no description is no description).
CreatedIsListedAsSupplied ==
  Created =>
    Listed(LAMBDA got, sent :
      got = sent \/ (got = null /\ sent = undefined))

\* The transactions of the creating user that the sort puts before the one
\* just created: those dated no earlier.
Before ==
  { i \in 1..Len(transactions) :
      /\ transactions[i].userId = last.userId
      /\ transactions[i].id # last.transaction.id
      /\ DateLeq(last.transaction.date, transactions[i].date) }

\* C6, amended: provided fewer than DefaultLimit other transactions of the
\* user are dated no earlier than the new one, the list holds it with the
\* amount, category and type supplied, and with the description supplied
\* when that is a non-empty string, null otherwise.
CreatedIsListedWithinLimit ==
  (Created /\ Cardinality(Before) < DefaultLimit) =>
    Listed(LAMBDA got, sent : got = (IF Truthy(sent) THEN sent ELSE null))

\* C6 happens: the user has more transactions than the list takes, and the
\* one just created, with a description, is dated late enough to be listed.
CreatedAmongMoreThanLimit ==
  /\ Created
  /\ Len(SelectSeq(transactions, LAMBDA t : t.userId = last.userId))
       > DefaultLimit
  /\ Cardinality(Before) < DefaultLimit
  /\ Truthy(last.body.description)


\* The stored users that carry the credential of the last request
Holders(k) == { i \in 1..Len(users) : users[i].privateKey = k }

\* C11: a register request with the credential of a stored user is answered
\* 400 and leaves the users as they were; one with a valid credential that
\* no stored user has appends one user, carrying that credential.
RegisterRefusesStoredCredential ==
  [][ last'.op = "register" =>
        LET k == last'.body.privateKey
        IN  /\ Holders(k) # {} =>
                 (last'.status = 400 /\ users' = users)
            /\ (Holders(k) = {} /\ registerSchema(last'.body)) =>
                 /\ last'.status = 200
                 /\ Len(users') = Len(users) + 1
                 /\ SubSeq(users', 1, Len(users)) = users
                 /\ users'[Len(users')].privateKey = k ]_vars

\* C11 happens: with one user stored, a register request carrying that
\* user's credential has just been refused.
RegisterRefusedWithOneStored ==
  /\ Len(users) = 1
  /\ last.op = "register"
  /\ last.status = 400
  /\ users[1].privateKey = last.body.privateKey

\* A login step: what it answers, from the users stored, and what it leaves
\* alone
LoginStep(nobody(_)) ==
  last'.op = "login" =>
    LET k == last'.body.privateKey
    IN  /\ Holders(k) # {} =>
             /\ last'.status = 200
             /\ \E i \in Holders(k) :
                  last'.user = [ id            |-> users[i].id,
                                 fullName      |-> users[i].fullName,
                                 monthlyTarget |-> users[i].monthlyTarget ]
        /\ Holders(k) = {} => nobody(k)
        /\ UNCHANGED << users, transactions, contacts, chatMessages,
                        globalChatMessages >>

\* C12 as stated: a login with credential k answers with the stored user
\* whose credential is k, with 401 when there is none, and changes nothing
\* that is stored.
LoginFindsUserOr401 ==
  [][ LoginStep(LAMBDA k : last'.status = 401) ]_vars

\* C12, amended: 401 when there is none and k is not empty, 400 when k is
\* empty.
LoginFindsUserOr401Or400 ==
  [][ LoginStep(LAMBDA k : last'.status = (IF k = "" THEN 400 ELSE 401)) ]_vars

\* C12 happens: with two users stored, a login with the credential of the
\* second has been answered.
LoggedInAsSecondUser ==
  /\ Len(users) = 2
  /\ last.op = "login"
  /\ last.body.privateKey = users[2].privateKey


\* C13: a message is stored unread whatever the caller supplies, stays
\* stored, never goes from read to unread, and goes from unread to read only
\* in a markMessagesAsRead called by its recipient for its sender's handle.
MessageReadOnlyByRecipient ==
  [][ /\ Len(chatMessages') >= Len(chatMessages)
      /\ \A i \in (Len(chatMessages) + 1)..Len(chatMessages') :
           ~ chatMessages'[i].isRead
      /\ \A i \in 1..Len(chatMessages) :
           LET msg       == chatMessages[i]
               recipient == getUserByWeyId(msg.toWeyId)
               sender    == getUserById(msg.fromUserId)
           IN  /\ [chatMessages'[i] EXCEPT !.isRead = msg.isRead] = msg
               /\ msg.isRead => chatMessages'[i].isRead
               /\ chatMessages'[i].isRead # msg.isRead =>
                    /\ last'.op = "markMessagesAsRead"
                    /\ recipient # null
                    /\ sender # null
                    /\ last'.userId = recipient.id
                    /\ last'.contactWeyId = sender.weyId ]_vars


\* Whether a stored transaction has this id and this owner
Matches(id, userId) ==
  \E i \in 1..Len(transactions) :
    transactions[i].id = id /\ transactions[i].userId = userId

\* C14: the DELETE endpoint answers 200 always; when no stored transaction
\* has the id and the owner named, the store is left as it was; after the
\* delete nothing matches, and the same delete again changes nothing.
DeleteIsIdempotent ==
  [][ last'.op = "deleteTransaction" =>
        /\ last'.status = 200
        /\ ~ Matches(last'.id, last'.userId) => transactions' = transactions
        /\ (~ Matches(last.id, last.userId))'
        /\ (deleteTransaction(last.id, last.userId) = transactions)' ]_vars

\* C14 happens: a delete has been served that names a transaction deleted
\* before, with other transactions still stored.
DeletedTheDeleted ==
  /\ last.op = "deleteTransaction"
  /\ last.id \in IssuedIds \ TxIds
  /\ transactions # <<>>


\* The 36 symbols A-Z, 0-9
Alphabet ==
  { "A", "B", "C", "D", "E", "F", "G", "H", "I", "J", "K", "L", "M", "N",
    "O", "P", "Q", "R", "S", "T", "U", "V", "W", "X", "Y", "Z" }
    \cup { "0", "1", "2", "3", "4", "5", "6", "7", "8", "9" }

\* C15: the handle of every stored user is 8 characters, each of them one
\* of A-Z, 0-9.
HandlesAreEightOfAlphabet ==
  /\ Cardinality(Alphabet) = 36
  /\ \A i \in 1..Len(users) :
       /\ Len(users[i].weyId) = 8
       /\ \A j \in 1..8 : users[i].weyId[j] \in Alphabet

\* C15 happens: two users are stored, the second just registered, one of
\* them with a handle that ends in the last symbol of the alphabet.
TwoHandlesGenerated ==
  /\ Len(users) = 2
  /\ last.op = "register"
  /\ last.status = 200
  /\ \E i \in 1..2 : users[i].weyId[Len(users[i].weyId)] = "9"


\* C16: a create request with a negative amount is answered 400 and stores
\* nothing, so that no stored transaction has a negative amount.
NegativeAmountIsRejected ==
  [][ /\ (last'.op = "createTransaction"
           /\ ParseDecimal(last'.body.amount).neg)
          => (last'.status = 400 /\ transactions' = transactions)
      /\ \A i \in 1..Len(transactions') :
           ~ ParseDecimal(transactions'[i].amount).neg ]_vars


\* C17: the owner of every stored transaction is the id of exactly one
\* stored user.
TransactionOwnerIsStoredUser ==
  \A k \in 1..Len(transactions) :
    Cardinality({ i \in 1..Len(users) :
                    users[i].id = transactions[k].userId }) = 1


\* The stored messages between users a and b: those a sent to b's handle
\* and those b sent to a's handle
Between(a, b) ==
  { i \in 1..Len(chatMessages) :
      \/ (chatMessages[i].fromUserId = a.id
           /\ chatMessages[i].toWeyId = b.weyId)
      \/ (chatMessages[i].fromUserId = b.id
           /\ chatMessages[i].toWeyId = a.weyId) }

\* The limits the conversation is asked with
Limits == 1..(Len(chatMessages) + 1)

\* C18: for different stored users a and b, getChatMessages(a, handle of b, limit)
\* returns min(limit, number of messages between them) entries, each a
\* different message between them, flagged isFromCurrentUser exactly when a
\* sent it, newest first, and no message between them left out is newer
\* than one returned.
ConversationIsBothDirections ==
  \A x, y \in 1..Len(users), limit \in Limits :
    LET a    == users[x]
        b    == users[y]
        conv == Between(a, b)
        got  == getChatMessages(a.id, b.weyId, limit)
        ids  == { got[k].id : k \in 1..Len(got) }
    IN  x # y =>
        /\ Len(got) = IF limit < Cardinality(conv) THEN limit
                       ELSE Cardinality(conv)
        /\ Cardinality(ids) = Len(got)
        /\ \A k \in 1..Len(got) :
             /\ \E i \in conv :
                  /\ chatMessages[i].id = got[k].id
                  /\ chatMessages[i].content = got[k].content
                  /\ chatMessages[i].createdAt = got[k].createdAt
             /\ got[k].isFromCurrentUser = (got[k].fromUserId = a.id)
             /\ k > 1 => DateLeq(got[k].createdAt, got[k - 1].createdAt)
             /\ \A i \in conv :
                  chatMessages[i].id \notin ids
                    => DateLeq(chatMessages[i].createdAt, got[k].createdAt)


\* The last of a set of stored messages: the content of one that none of
\* them is later than, the empty string when there is none
IsLastOf(content, msgs) ==
  IF msgs = {} THEN content = ""
  ELSE \E i \in msgs :
         /\ content = chatMessages[i].content
         /\ \A j \in msgs :
              DateLeq(chatMessages[j].createdAt, chatMessages[i].createdAt)

\* C19: for every contact of a stored user a, getUserContacts(a) reports
\* as unreadCount the number of unread messages that the user with the
\* contact's handle sent to a's handle, and as lastMessage the content of
\* the latest message between the two; right after
\* markMessagesAsRead(a, the contact's handle) the unreadCount is 0.
ContactsCountUnreadAndShowLast ==
  \A x \in 1..Len(users) :
    LET a    == users[x]
        list == getUserContacts(a.id)
    IN  \A k \in 1..Len(list) :
          LET b    == getUserByWeyId(list[k].contactWeyId)
              conv == IF b = null THEN {} ELSE Between(a, b)
              unread == { i \in conv :
                            /\ chatMessages[i].fromUserId = b.id
                            /\ chatMessages[i].toWeyId = a.weyId
                            /\ ~ chatMessages[i].isRead }
          IN  /\ list[k].unreadCount = Cardinality(unread)
              /\ IsLastOf(list[k].lastMessage, conv)
              /\ ( /\ last.op = "markMessagesAsRead"
                    /\ last.userId = a.id
                    /\ last.contactWeyId = list[k].contactWeyId )
                  => list[k].unreadCount = 0


\* The label of the week so many weeks before the current one
WeeksAgo(n) ==
  IF n = 0 THEN "Minggu Ini"
  ELSE IF n = 1 THEN "Minggu Lalu"
  ELSE ToString(n) \o " Minggu Lalu"

\* C20: the buckets of getWeeklyStats go from the current week backwards,
\* and the bucket of the week that starts 7 * n days before the Monday of
\* the current week is labelled as this week for n = 0, as last week for
\* n = 1, and as n weeks ago for n >= 2.
WeekLabelsCountWeeksBack ==
  \A u \in Callers, count \in 0..MaxWeeks :
    LET stats == getWeeklyStats(u, count)
    IN  \A k \in 1..Len(stats) :
          LET back == Monday(0) - stats[k].startDate.day
          IN  /\ back >= 0
              /\ back % 7 = 0
              /\ stats[k].week = WeeksAgo(back \div 7)
              /\ k > 1 => DateLess(stats[k].startDate, stats[k - 1].startDate)


\* The stored transactions of a user, by position
Mine(u) == { i \in 1..Len(transactions) : transactions[i].userId = u }

\* The limits a list is asked with: none to one more than the user can
\* have created here, and the default
ListLimits == (0..MaxTx) \cup {DefaultLimit}

\* C21: getUserTransactions(u, n) returns min(n, number of u's
\* transactions) entries, each a different transaction of u, in
\* non-increasing order of date, and no transaction of u left out is dated
\* later than one returned.
ListIsLatestOfUser ==
  \A u \in Callers, n \in ListLimits :
    LET got   == getUserTransactions(u, n)
        ids   == { got[k].id : k \in 1..Len(got) }
        dates == [ k \in 1..Len(got) |-> got[k].date ]
    IN  /\ Len(got) = IF n < Cardinality(Mine(u)) THEN n
                       ELSE Cardinality(Mine(u))
        /\ Cardinality(ids) = Len(got)
        /\ Range(got) \subseteq { transactions[i] : i \in Mine(u) }
        /\ \A k \in 2..Len(got) : DateLeq(dates[k], dates[k - 1])
        /\ \A i \in Mine(u) :
             transactions[i].id \notin ids =>
               \A d \in Range(dates) : DateLeq(transactions[i].date, d)

\* C21 happens: a user has more transactions than the default limit, of
\* different dates, and the list with the default limit leaves out the
\* earliest.
ListCutAtDefaultLimit ==
  \E u \in Callers :
    /\ Cardinality(Mine(u)) > DefaultLimit
    /\ Len(getUserTransactions(u, DefaultLimit)) = DefaultLimit
    /\ \E i, j \in Mine(u) :
         DateLess(transactions[i].date, transactions[j].date)


\* C22: getUserTransactionsByDateRange(u, start, end) returns the
\* transactions of u dated from start to end, both included, each once, in
\* non-increasing order of date; none when start is after end.
RangeIsInclusive ==
  \A u \in Callers, start \in WeekDates, end \in WeekDates :
    LET got    == getUserTransactionsByDateRange(u, start, end)
        within == { i \in Mine(u) :
                      /\ ~ DateLess(transactions[i].date, start)
                      /\ ~ DateLess(end, transactions[i].date) }
    IN  /\ Len(got) = Cardinality(within)
        /\ Range(got) = { transactions[i] : i \in within }
        /\ \A k \in 2..Len(got) : ~ DateLess(got[k - 1].date, got[k].date)
        /\ DateLess(end, start) => got = <<>>

\* C22 happens: a user has two transactions of different dates; the range
\* from the earlier date to itself holds one of them, the range from the
\* earlier to the later date both.
RangeBoundsAreDatesOfTransactions ==
  \E u \in Callers :
    \E i, j \in Mine(u) :
      LET d == transactions[i].date
          e == transactions[j].date
      IN  /\ DateLess(d, e)
          /\ Len(getUserTransactionsByDateRange(u, d, d)) = 1
          /\ Len(getUserTransactionsByDateRange(u, d, e)) = 2
          /\ getUserTransactionsByDateRange(u, e, d) = <<>>

\* The transactions of a user dated in the thirty days up to now
InWindow(u) ==
  { i \in Mine(u) :
      /\ DateLeq(AddDays(now, 0 - WindowDays), transactions[i].date)
      /\ DateLeq(transactions[i].date, now) }

Abs(x) == IF x < 0 THEN 0 - x ELSE x

\* C23: the averages endpoint answers with one entry for each pair of type
\* and category that a transaction of the user dated in the thirty days up
\* to now has; the entry counts those transactions and its averageAmount is
\* an integer nearest to their total divided by the count; transactions
\* dated outside the thirty days are in no entry.
AveragesAreRoundedMeansPerGroup ==
  \A u \in Callers :
    LET got   == averages(u)
        pairs == { <<transactions[i].type, transactions[i].category>> :
                     i \in InWindow(u) }
    IN  /\ Len(got) = Cardinality(pairs)
        /\ \A pair \in pairs :
             LET of == { i \in InWindow(u) :
                           /\ transactions[i].type = pair[1]
                           /\ transactions[i].category = pair[2] }
                 RECURSIVE cents(_)
                 cents(I) ==
                   IF I = {} THEN 0
                   ELSE LET i == CHOOSE i \in I : TRUE
                        IN  Cents(transactions[i].amount) + cents(I \ {i})
             IN  \E k \in 1..Len(got) :
                   /\ got[k].type = pair[1]
                   /\ got[k].category = pair[2]
                   /\ got[k].transactionCount = Cardinality(of)
                   /\ got[k].transactionCount >= 1
                   /\ 2 * Abs(100 * Cardinality(of) * got[k].averageAmount
                              - cents(of))
                        <= 100 * Cardinality(of)

\* C23 happens: a user has a transaction dated before the thirty days and
\* two of one pair in them, one dated at their very start, of 0.10 and
\* 2.50: the only entry counts two and gives 1.
AveragesOfTwoInWindow ==
  \E u \in Callers :
    /\ InWindow(u) # Mine(u)
    /\ Len(averages(u)) = 1
    /\ averages(u)[1].transactionCount = 2
    /\ averages(u)[1].averageAmount = 1
    /\ \E i \in InWindow(u) :
         transactions[i].date = AddDays(now, 0 - WindowDays)

\* The buckets of getWeeklyStats(u, n) are the n weeks up to the current
\* one, Monday 00:00:00.000 to Sunday 23:59:59.999, each starting the
\* millisecond after the one before it ends, and each transaction of u
\* dated in them is in the range of exactly one.
WeekBucketsPartition ==
  \A u \in Callers, n \in 1..MaxWeeks :
    LET stats == getWeeklyStats(u, n)
        inBucket(t, b) == /\ DateLeq(b.startDate, t.date)
                          /\ DateLeq(t.date, b.endDate)
    IN  /\ \A i \in 0..(n - 1) :
             /\ stats[i + 1].startDate = Date(Monday(i), 0)
             /\ stats[i + 1].endDate = Date(Monday(i) + 6, MsPerDay - 1)
        /\ \A i \in 1..(n - 1) :
             stats[i + 1].endDate.day + 1 = stats[i].startDate.day
        /\ \A k \in Mine(u) :
             (/\ DateLeq(stats[n].startDate, transactions[k].date)
              /\ DateLeq(transactions[k].date, stats[1].endDate))
               => Cardinality({ i \in 1..n :
                                  inBucket(transactions[k], stats[i]) }) = 1

\* The transactions of a user, of one type, dated in the n weeks up to the
\* current one
InSpan(u, type, n) ==
  SelectSeq(transactions,
            LAMBDA t : /\ t.userId = u
                       /\ t.type = type
                       /\ Monday(n - 1) <= t.date.day
                       /\ t.date.day <= Monday(0) + 6)

\* C24: the buckets of getWeeklyStats(u, n) partition the last n weeks,
\* Monday 00:00:00 to Sunday 23:59:59 each, without overlap or gap, each
\* transaction of u dated in them is counted in exactly one bucket, and
\* the incomes (expenses) of the buckets add up to the total of the income
\* (expense) amounts dated in the n weeks.
WeekBucketsAddUpToTheSpan ==
  /\ WeekBucketsPartition
  /\ \A u \in Callers, n \in 1..MaxWeeks :
       LET stats == getWeeklyStats(u, n)
           RECURSIVE sum(_, _)
           sum(k, field) ==
             IF k = 0 THEN DZero
             ELSE DAdd(sum(k - 1, field), stats[k][field])
       IN  /\ sum(n, "income") = Exact(SumCents(InSpan(u, "income", n)))
           /\ sum(n, "expense") = Exact(SumCents(InSpan(u, "expense", n)))

\* C25: a register request that passed the check of its credential stores
\* a user with it when it goes on, whoever was stored in between; so two
\* requests with one credential that both pass the check before either
\* stores both succeed, and two stored users share the credential.
RegisterStoresWhatPassedTheCheck ==
  [][\A r \in requests :
       (r \notin requests' /\ r.existingUser = undefined)
         => /\ Len(users') = Len(users) + 1
            /\ users'[Len(users')].privateKey = r.body.privateKey
            /\ last'.status = 200]_vars

\* C25 happens: two stored users share a credential, the second of them
\* just stored by a request answered 200.
TwoUsersShareCredential ==
  /\ Len(users) = 2
  /\ users[1].privateKey = users[2].privateKey
  /\ users[1].id # users[2].id
  /\ last = [op |-> "register",
             body |-> [fullName |-> "Ani", privateKey |-> users[2].privateKey,
                       monthlyTarget |-> "2000000"],
             status |-> 200]

Ids(collection) == { collection[i].id : i \in 1..Len(collection) }

\* What a step keeps of a collection: every record but at most the one a
\* delete call of this step names, in the order they had, and after them
\* at most one record, of an identifier not issued before
KeptAndGrown(before, after, deleted) ==
  \E gone \in SUBSET deleted :
    LET kept == SelectSeq(before, LAMBDA x : x.id \notin gone)
    IN  /\ Len(after) \in { Len(kept), Len(kept) + 1 }
        /\ \A i \in 1..Len(kept) : after[i].id = kept[i].id
        /\ Len(after) = Len(kept) + 1
             => after[Len(after)].id = nanoid(nanoids + 1)

Deleted(op) == IF last'.op = op THEN {last'.id} ELSE {}

\* C26: with calls that wait only at their awaits, every step that changes
\* the store is one whole call on the store as it is: createUser adds a
\* user whose handle no stored user has, markMessagesAsRead flips what it
\* would flip if called now, no record goes but by the delete call of the
\* step, none comes back, and no two stored users share a handle.
StoreStepsAreWholeCalls ==
  [][  /\ users' # users =>
           \E insertUser \in Members, weyId \in generateWeyId :
             /\ isUnique(weyId)
             /\ users' = Append(users, createUser(insertUser, weyId))
       /\ \A i, j \in 1..Len(users') :
            users'[i].weyId = users'[j].weyId => i = j
       /\ (chatMessages' # chatMessages
             /\ Len(chatMessages') = Len(chatMessages))
            => \E userId \in UserIds, weyId \in generateWeyId :
                 chatMessages' = markMessagesAsRead(userId, weyId)
       /\ KeptAndGrown(users, users', {})
       /\ KeptAndGrown(chatMessages, chatMessages', {})
       /\ KeptAndGrown(globalChatMessages, globalChatMessages', {})
       /\ KeptAndGrown(transactions, transactions',
                       Deleted("deleteTransaction"))
       /\ KeptAndGrown(contacts, contacts',
                       Deleted("deleteContact"))
     ]_vars

\* C26 happens: a markMessagesAsRead call waits at its await with the user
\* it found, and a sendMessage call made since has stored a message that
\* it flips when it goes on.
MarkWaitsWhileMessageIsSent ==
  \E r \in requests :
    /\ r.op = "markMessagesAsRead"
    /\ r.contactUser # null
    /\ last.op = "sendMessage"
    /\ markMessagesAsReadOf(r.userId, r.contactUser) # chatMessages

InLoop == \E r \in requests : r.op = "createUser"

EveryHandleTaken == \A weyId \in generateWeyId : ~ isUnique(weyId)

\* C27: the loop of createUser ends only with a handle that no stored user
\* has then; while a handle is left and every handle keeps being drawn,
\* the loop ends; once every handle is taken it never ends and stores
\* nothing.
HandleLoopEndsIffAHandleIsLeft ==
  /\ [][users' # users =>
          /\ Len(users') = Len(users) + 1
          /\ isUnique(users'[Len(users')].weyId)
          /\ SubSeq(users', 1, Len(users)) = users]_vars
  /\ [][(InLoop /\ EveryHandleTaken) =>
          (InLoop' /\ users' = users /\ requests' = requests)]_vars
  /\ (InLoop /\ ~ EveryHandleTaken) ~> ~ InLoop

\* C27 happens: createUser is in its loop and every handle is taken.
LoopWithEveryHandleTaken ==
  /\ InLoop
  /\ EveryHandleTaken
  /\ Len(users) = Cardinality(generateWeyId)

\* The stored transactions in the opposite order: the same set, inserted
\* the other way round
Reversed ==
  [ i \in 1..Len(transactions) |->
      transactions[Len(transactions) + 1 - i] ]

\* What getUserBalance(u) returns of the transactions ts
BalanceOver(ts, u) ==
  LET sum(type) == SumAmounts(SelectSeq(ts, LAMBDA t :
                     t.userId = u /\ t.type = type), DZero)
  IN  [ income  |-> sum("income"), expense |-> sum("expense"),
        balance |-> DSub(sum("income"), sum("expense")) ]

\* What getUserCategoryStats(u) returns of the transactions ts
CategoryStatsOver(ts, u) ==
  LET expenses == SelectSeq(ts, LAMBDA t :
                    t.userId = u /\ t.type = "expense")
      firsts == SelectSeq([ i \in 1..Len(expenses) |-> i ], LAMBDA i :
                  \A j \in 1..(i - 1) :
                    expenses[j].category # expenses[i].category)
  IN  [ k \in 1..Len(firsts) |->
          LET of == SelectSeq(expenses, LAMBDA t :
                      t.category = expenses[firsts[k]].category)
          IN  [ category |-> expenses[firsts[k]].category,
                total    |-> SumAmounts(of, DZero),
                count    |-> Len(of) ] ]

\* What getWeeklyStats(u, n) returns of the transactions ts
WeeklyStatsOver(ts, u, n) ==
  [ k \in 1..n |->
      LET sum(type) ==
            SumAmounts(SortByDateDesc(SelectSeq(ts, LAMBDA t :
              /\ t.userId = u
              /\ t.type = type
              /\ InWeek(t, k - 1))), DZero)
      IN  [ week      |-> weekLabel(k - 1),
            income    |-> sum("income"),
            expense   |-> sum("expense"),
            balance   |-> DSub(sum("income"), sum("expense")),
            startDate |-> Date(Monday(k - 1), 0),
            endDate   |-> Date(Monday(k - 1) + 6, MsPerDay - 1) ] ]

\* The three are what the store returns
OverTheStoreIsTheStore ==
  \A u \in Callers :
    /\ BalanceOver(transactions, u) = getUserBalance(u)
    /\ CategoryStatsOver(transactions, u) = getUserCategoryStats(u)
    /\ WeeklyStatsOver(transactions, u, MaxWeeks) = getWeeklyStats(u, MaxWeeks)

\* The stored transactions without those of other users than u
OnlyOf(u) == SelectSeq(transactions, LAMBDA t : t.userId = u)

\* What a user gets is what the user would get with no transaction of
\* another user in the store.
OthersTransactionsDoNotMatter ==
  \A u \in Callers :
    /\ BalanceOver(OnlyOf(u), u) = getUserBalance(u)
    /\ CategoryStatsOver(OnlyOf(u), u) = getUserCategoryStats(u)
    /\ WeeklyStatsOver(OnlyOf(u), u, MaxWeeks) = getWeeklyStats(u, MaxWeeks)
    /\ slice(SortByDateDesc(OnlyOf(u)), DefaultLimit)
         = getUserTransactions(u, DefaultLimit)

\* C28: what getUserBalance, getUserCategoryStats and getWeeklyStats
\* return for a user is the same had the same transactions been inserted
\* in the opposite order, and the same, as is the user's list, had no
\* other user a transaction in the store.
AnalyticsAreOfTheSetOnly ==
  /\ \A u \in Callers :
       /\ BalanceOver(Reversed, u) = getUserBalance(u)
       /\ CategoryStatsOver(Reversed, u) = getUserCategoryStats(u)
       /\ WeeklyStatsOver(Reversed, u, MaxWeeks) = getWeeklyStats(u, MaxWeeks)
  /\ OthersTransactionsDoNotMatter

\* The totals alone, whatever the order of the entries
TotalsAreOfTheSetOnly ==
  \A u \in Callers :
    /\ BalanceOver(Reversed, u) = getUserBalance(u)
    /\ Range(CategoryStatsOver(Reversed, u)) = Range(getUserCategoryStats(u))
    /\ WeeklyStatsOver(Reversed, u, MaxWeeks) = getWeeklyStats(u, MaxWeeks)

ReadingOperations ==
  { "getGlobalChatMessages", "getUserTransactions", "getUserBalance",
    "getUserCategoryStats", "getWeeklyStats", "getUserContacts",
    "getChatMessages" }

\* C29: a call of a reading operation leaves the five collections as they
\* were, the order of their elements included.
ReadsLeaveTheStore ==
  [][last'.op \in ReadingOperations =>
       UNCHANGED << users, transactions, contacts, chatMessages,
                    globalChatMessages >>]_vars

\* The same of the reading operations but getGlobalChatMessages
FilteringReadsLeaveTheStore ==
  [][last'.op \in ReadingOperations \ {"getGlobalChatMessages"} =>
       UNCHANGED << users, transactions, contacts, chatMessages,
                    globalChatMessages >>]_vars

\* C30: for the same user, transactions, time and weekCount, the
\* getWeeklyStats of the memory store and that of the database store
\* return as many buckets, of the same weeks, with the same income,
\* expense and balance, in the same order.
TwoGetWeeklyStatsAgree ==
  \A u \in Callers, n \in 0..MaxWeeks :
    LET memory   == getWeeklyStats(u, n)
        database == DatabaseStorage_getWeeklyStats(u, n)
    IN  /\ Len(memory) = Len(database)
        /\ \A k \in 1..Len(memory) :
             /\ database[k].weekStart = memory[k].startDate.day
             /\ database[k].income = memory[k].income
             /\ database[k].expense = memory[k].expense
             /\ database[k].balance = memory[k].balance

\* The weeks the database store returns are weeks from a Sunday on, and
\* only weeks with a transaction of the user.
DatabaseWeeksStartOnSunday ==
  \A u \in Callers, n \in 0..MaxWeeks :
    LET database == DatabaseStorage_getWeeklyStats(u, n)
    IN  \A k \in 1..Len(database) :
          /\ (database[k].weekStart + 4) % 7 = 0
          /\ database[k].transactionCount >= 1

====
